---- MODULE Spec2Model ----
(***************************************************************************)
(* coursework/wind.py: a straight-line script that samples a synthetic     *)
(* wind field on a 20 x 80 grid, draws it as a quiver plot and exports the *)
(* figure to wind-field.pdf.                                               *)
(*                                                                         *)
(* One action per source line.  A process is one run of the script; the    *)
(* file system outlives the process, so a later run starts with whatever   *)
(* the earlier one left behind.  float64 values are modelled as fixed      *)
(* point integers n standing for n / Scale; every arithmetic operation     *)
(* rounds its exact result once, to the nearest representable value.       *)
(***************************************************************************)
EXTENDS Integers, Sequences, FiniteSets

VARIABLES
    pc,            \* the line the interpreter executes next, or "done" / "failed"
    trace,         \* the source lines this process has executed, in order
    exc,           \* the uncaught exception that ended the process, "" if none
    argv, environ, \* sys.argv and os.environ of this process
    x, y,          \* module globals; <<>> while the name is unbound
    X, Y, U, V,
    fig, ax, bbox_artists,
    fs,            \* the working directory: path -> <<>> (absent) or <<content>>
    fs0,           \* fs as it was when this process started
    writable,      \* whether wind-field.pdf can be opened for writing
    calls,         \* the fig.savefig calls this process made, with their outcome
    runs,          \* how many processes have been started
    prev           \* <<>> in the first process, then <<r>>: the arrays the
                   \* previous process computed and the inputs it started with

vars == <<pc, trace, exc, argv, environ, x, y, X, Y, U, V, fig, ax,
          bbox_artists, fs, fs0, writable, calls, runs, prev>>

----------------------------------------------------------------------------
(* Bounds of the model *)

\* n stands for the float n / Scale
Scale == 1000

\* processes started one after the other in the same working directory
MaxRuns == 2

(* Constants of the program *)

Nx == 80
Ny == 20

Target == "wind-field.pdf"
Other == "wind-field-1.pdf"
Paths == {Target, Other}

\* what a process is started with: its command line and its environment
Inputs ==
    {[argv |-> <<"wind.py">>, environ |-> {}],
     [argv |-> <<"wind.py", "40">>, environ |-> {"GRID=40"}]}

Unbound == <<>>

----------------------------------------------------------------------------
(* float64 arithmetic, in fixed point *)

Abs(a) == IF a < 0 THEN -a ELSE a

\* a / b for b > 0, rounded to nearest, ties away from zero
RoundDiv(a, b) ==
    IF a >= 0 THEN (2 * a + b) \div (2 * b) ELSE -((2 * (-a) + b) \div (2 * b))

\* an int literal of the source as a float
float(n) == n * Scale

fmul(a, b) == RoundDiv(a * b, Scale)

\* numpy.pi
pi == RoundDiv(355 * Scale, 113)

\* an angle brought into [-pi/2, pi/2] together with the sign sin takes there
ReduceSin(a) ==
    LET r0 == a % (2 * pi)
        r  == IF 2 * r0 > 2 * pi THEN r0 - 2 * pi ELSE r0
    IN  IF 2 * r > pi THEN pi - r
        ELSE IF 2 * r < -pi THEN -pi - r
        ELSE r

SinSeries(t) ==
    LET t2 == fmul(t, t)
        t3 == RoundDiv(t * t2, 6 * Scale)
        t5 == RoundDiv(t3 * t2, 20 * Scale)
        t7 == RoundDiv(t5 * t2, 42 * Scale)
        t9 == RoundDiv(t7 * t2, 72 * Scale)
    IN  t - t3 + t5 - t7 + t9

CosSeries(t) ==
    LET t2 == fmul(t, t)
        c2 == RoundDiv(float(1) * t2, 2 * Scale)
        c4 == RoundDiv(c2 * t2, 12 * Scale)
        c6 == RoundDiv(c4 * t2, 30 * Scale)
        c8 == RoundDiv(c6 * t2, 56 * Scale)
    IN  float(1) - c2 + c4 - c6 + c8

sin(a) == SinSeries(ReduceSin(a))

cos(a) ==
    LET r0 == a % (2 * pi)
        r  == IF 2 * r0 > 2 * pi THEN 2 * pi - r0 ELSE r0
    IN  IF 2 * r > pi THEN -CosSeries(pi - r) ELSE CosSeries(r)

RECURSIVE ISqrt(_, _, _)
\* the largest r in lo..hi with r * r <= n
ISqrt(n, lo, hi) ==
    IF lo >= hi THEN lo
    ELSE LET mid == (lo + hi + 1) \div 2
         IN  IF mid * mid <= n THEN ISqrt(n, mid, hi) ELSE ISqrt(n, lo, mid - 1)

sqrt(a) ==
    LET n == a * Scale
        r == ISqrt(n, 0, 8 * Scale)
    IN  IF n - r * r > r THEN r + 1 ELSE r

----------------------------------------------------------------------------
(* numpy arrays: a 1-D array is a function on 0..n-1, a 2-D array a        *)
(* function on the rows 0..m-1 whose values are 1-D arrays                 *)

\* a ufunc of one array: numpy.sin, numpy.cos, numpy.sqrt, unary minus
np_sin(A) == [i \in DOMAIN A |-> [j \in DOMAIN A[i] |-> sin(A[i][j])]]
np_cos(A) == [i \in DOMAIN A |-> [j \in DOMAIN A[i] |-> cos(A[i][j])]]
np_sqrt(A) == [i \in DOMAIN A |-> [j \in DOMAIN A[i] |-> sqrt(A[i][j])]]
np_neg(A) == [i \in DOMAIN A |-> [j \in DOMAIN A[i] |-> -A[i][j]]]

\* A**2
np_square(A) == [i \in DOMAIN A |-> [j \in DOMAIN A[i] |-> fmul(A[i][j], A[i][j])]]

\* A*B and A + B of two arrays of one shape
np_mul(A, B) == [i \in DOMAIN A |-> [j \in DOMAIN A[i] |-> fmul(A[i][j], B[i][j])]]
np_add(A, B) == [i \in DOMAIN A |-> [j \in DOMAIN A[i] |-> A[i][j] + B[i][j]]]

\* c*A for a float c, n*A for an int literal n, A/n for an int literal n
np_scale(c, A) == [i \in DOMAIN A |-> [j \in DOMAIN A[i] |-> fmul(c, A[i][j])]]
np_times(n, A) == [i \in DOMAIN A |-> [j \in DOMAIN A[i] |-> n * A[i][j]]]
np_div(A, n) == [i \in DOMAIN A |-> [j \in DOMAIN A[i] |-> RoundDiv(A[i][j], n)]]

shape(A) ==
    IF DOMAIN A = {} THEN <<0, 0>>
    ELSE <<Cardinality(DOMAIN A), Cardinality(DOMAIN A[0])>>

\* variant: linspace(..., endpoint=False), which stops one step short of stop
linspaceNoEndpoint(start, stop, num) ==
    LET delta == float(stop) - float(start)
    IN  [j \in 0..(num - 1) |-> RoundDiv(j * delta, num) + float(start)]

linspace(start, stop, num) ==
    LET div   == num - 1
        delta == float(stop) - float(start)
    IN  [j \in 0..(num - 1) |->
            IF j = num - 1 THEN float(stop)
            ELSE RoundDiv(j * delta, div) + float(start)]

\* variant: meshgrid(a, b, indexing="ij"), whose grids are len(a) x len(b)
meshgridIJ(a, b) ==
    << [i \in DOMAIN a |-> [j \in DOMAIN b |-> a[i]]],
       [i \in DOMAIN a |-> [j \in DOMAIN b |-> b[j]]] >>

\* variant: the two grids unpacked in the wrong order
meshgridSwapped(a, b) ==
    << [i \in DOMAIN b |-> [j \in DOMAIN a |-> b[i]]],
       [i \in DOMAIN b |-> [j \in DOMAIN a |-> a[j]]] >>

\* numpy.meshgrid(a, b) with the default indexing="xy"
meshgrid(a, b) ==
    << [i \in DOMAIN b |-> [j \in DOMAIN a |-> a[j]]],
       [i \in DOMAIN b |-> [j \in DOMAIN a |-> b[i]]] >>

----------------------------------------------------------------------------
(* matplotlib objects *)

\* pyplot.figure(figsize=..., frameon=...)
figure(figsize, frameon) == [figsize |-> figsize, frameon |-> frameon, axes |-> 0]

\* a fresh Axes: no collections, both axis labels present with empty text
add_subplot ==
    [collections |-> <<>>,
     labels |-> [xaxis |-> [text |-> "", fontsize |-> 10],
                 yaxis |-> [text |-> "", fontsize |-> 10]]]

\* Axes.quiver(X, Y, U, V, C): the arrow collection added to the axes
quiver(a, Xq, Yq, Uq, Vq, Cq) ==
    [a EXCEPT !.collections =
        Append(@, [X |-> Xq, Y |-> Yq, U |-> Uq, V |-> Vq, C |-> Cq])]

\* Axes.set_xlabel / set_ylabel: the axes afterwards and the Text artist returned
set_label(a, axis, text, fontsize) ==
    [ax  |-> [a EXCEPT !.labels[axis] = [text |-> text, fontsize |-> fontsize]],
     ret |-> axis]

\* what the pdf backend writes for a figure
print_pdf(f, a, kw) ==
    [magic |-> "%PDF-",
     orientation |-> kw.orientation,
     transparent |-> kw.transparent,
     bbox_inches |-> kw.bbox_inches,
     bbox_extra_artists |-> kw.bbox_extra_artists,
     figsize |-> f.figsize,
     frameon |-> f.frameon,
     collections |-> a.collections,
     labels |-> a.labels]

\* a pdf that some earlier program left under the same name
StalePdf ==
    print_pdf(figure(<<6, 4>>, TRUE), add_subplot,
              [orientation |-> "portrait", transparent |-> FALSE,
               bbox_inches |-> "", bbox_extra_artists |-> <<>>])

\* variant: the file opened with mode "xb", so that an existing file is kept
savefigExclusive(f, a, kw, dir, w) ==
    IF w
    THEN [ok |-> TRUE, opens |-> <<kw.fname>>,
          fs |-> IF dir[kw.fname] = <<>>
                 THEN [dir EXCEPT ![kw.fname] = <<print_pdf(f, a, kw)>>]
                 ELSE dir]
    ELSE [ok |-> FALSE, opens |-> <<kw.fname>>, fs |-> dir]

\* Figure.savefig(fname, ...): opens fname with mode "wb" (which truncates an
\* existing file) and writes the rendered figure; an unwritable path makes
\* the open raise and leaves the directory as it was
savefig(f, a, kw, dir, w) ==
    IF w
    THEN [ok |-> TRUE, opens |-> <<kw.fname>>,
          fs |-> [dir EXCEPT ![kw.fname] = <<print_pdf(f, a, kw)>>]]
    ELSE [ok |-> FALSE, opens |-> <<kw.fname>>, fs |-> dir]

----------------------------------------------------------------------------
(* The process *)

NewProcess ==
    /\ pc = "l4"
    /\ trace = <<>>
    /\ exc = ""
    /\ x = Unbound /\ y = Unbound
    /\ X = Unbound /\ Y = Unbound /\ U = Unbound /\ V = Unbound
    /\ fig = <<>> /\ ax = <<>> /\ bbox_artists = <<>>
    /\ calls = <<>>

Init ==
    /\ NewProcess
    /\ \E inp \in Inputs : argv = inp.argv /\ environ = inp.environ
    /\ writable \in BOOLEAN
    /\ \E c \in {<<>>, <<StalePdf>>} :
          fs = [p \in Paths |-> IF p = Target THEN c ELSE <<>>]
    /\ fs0 = fs
    /\ runs = 1
    /\ prev = <<>>

\* a statement that ran to its end: control moves to the next statement
Goto(line, next) ==
    /\ pc' = next
    /\ trace' = Append(trace, line)
    /\ exc' = ""

Env == <<argv, environ, fs, fs0, writable, runs, prev>>

\* x = numpy.linspace(0, 10, 80)
Line4 ==
    /\ pc = "l4"
    /\ x' = linspace(0, 10, Nx)
    /\ Goto(4, "l5")
    /\ UNCHANGED <<y, X, Y, U, V, fig, ax, bbox_artists, calls, Env>>

\* variant: the upper end of y taken from the command line
Line5FromArgv ==
    /\ pc = "l5"
    /\ y' = linspace(0, Len(argv), Ny)
    /\ Goto(5, "l7")
    /\ UNCHANGED <<x, X, Y, U, V, fig, ax, bbox_artists, calls, Env>>

\* y = numpy.linspace(0, 1, 20)
Line5 ==
    /\ pc = "l5"
    /\ y' = linspace(0, 1, Ny)
    /\ Goto(5, "l7")
    /\ UNCHANGED <<x, X, Y, U, V, fig, ax, bbox_artists, calls, Env>>

\* X, Y = numpy.meshgrid(x, y)
Line7 ==
    /\ pc = "l7"
    /\ LET g == meshgrid(x, y) IN X' = g[1] /\ Y' = g[2]
    /\ Goto(7, "l9")
    /\ UNCHANGED <<x, y, U, V, fig, ax, bbox_artists, calls, Env>>

\* variant: the factor 2 of 2*numpy.pi left out
twopiDropped == pi

\* 2*numpy.pi
twopi == 2 * pi

\* 0.25*U, the x-component of the arrows; 0.25 is 1/4 exactly
arrows(Uv) == np_div(Uv, 4)

\* variant: the magnitude of the arrows as drawn, (0.25*U, V)
colourOfArrows(Uv, Vv) == np_sqrt(np_add(np_square(arrows(Uv)), np_square(Vv)))

\* numpy.sqrt(U**2 + V**2), the colour of the arrows
colour(Uv, Vv) == np_sqrt(np_add(np_square(Uv), np_square(Vv)))

\* U = 4*numpy.sin(2*numpy.pi*Y)*numpy.cos(numpy.pi*X/2)
Line9 ==
    /\ pc = "l9"
    /\ U' = np_mul(np_times(4, np_sin(np_scale(twopi, Y))),
                    np_cos(np_div(np_scale(pi, X), 2)))
    /\ Goto(9, "l10")
    /\ UNCHANGED <<x, y, X, Y, V, fig, ax, bbox_artists, calls, Env>>

\* V = -numpy.cos(2*numpy.pi*Y)*numpy.sin(numpy.pi*X/2)
Line10 ==
    /\ pc = "l10"
    /\ V' = np_mul(np_neg(np_cos(np_scale(twopi, Y))),
                    np_sin(np_div(np_scale(pi, X), 2)))
    /\ Goto(10, "l12")
    /\ UNCHANGED <<x, y, X, Y, U, fig, ax, bbox_artists, calls, Env>>

\* fig = pyplot.figure(figsize=(10, 2), frameon=True)
Line12 ==
    /\ pc = "l12"
    /\ fig' = <<figure(<<10, 2>>, TRUE)>>
    /\ Goto(12, "l13")
    /\ UNCHANGED <<x, y, X, Y, U, V, ax, bbox_artists, calls, Env>>

\* ax = fig.add_subplot(1, 1, 1)
Line13 ==
    /\ pc = "l13"
    /\ ax' = <<add_subplot>>
    /\ fig' = <<[fig[1] EXCEPT !.axes = @ + 1]>>
    /\ Goto(13, "l14")
    /\ UNCHANGED <<x, y, X, Y, U, V, bbox_artists, calls, Env>>

\* ax.quiver(X, Y, 0.25*U, V, numpy.sqrt(U**2 + V**2))
Line14 ==
    /\ pc = "l14"
    /\ ax' = <<quiver(ax[1], X, Y, arrows(U), V, colour(U, V))>>
    /\ Goto(14, "l15")
    /\ UNCHANGED <<x, y, X, Y, U, V, fig, bbox_artists, calls, Env>>

\* variant: control leaves line 15 for the export, past line 16
Line15Skip ==
    /\ pc = "l15"
    /\ ax' = <<set_label(ax[1], "yaxis", "$y$", 14).ax>>
    /\ Goto(15, "l17")
    /\ UNCHANGED <<x, y, X, Y, U, V, fig, bbox_artists, calls, Env>>

\* ax.set_ylabel("$y$", fontsize=14)
Line15 ==
    /\ pc = "l15"
    /\ ax' = <<set_label(ax[1], "yaxis", "$y$", 14).ax>>
    /\ Goto(15, "l16")
    /\ UNCHANGED <<x, y, X, Y, U, V, fig, bbox_artists, calls, Env>>

\* bbox_artists = [ax.set_xlabel("$x$", fontsize=14)]
Line16 ==
    /\ pc = "l16"
    /\ LET r == set_label(ax[1], "xaxis", "$x$", 14)
       IN  ax' = <<r.ax>> /\ bbox_artists' = <<r.ret>>
    /\ Goto(16, "l17")
    /\ UNCHANGED <<x, y, X, Y, U, V, fig, calls, Env>>

\* variant: the export wrapped in a try block that, on an error, writes the
\* figure under another name and carries on
Line17Fallback ==
    /\ pc = "l17"
    /\ LET kw == [fname |-> Target, orientation |-> "landscape", format |-> "pdf",
                  transparent |-> TRUE, bbox_inches |-> "tight",
                  bbox_extra_artists |-> bbox_artists]
           r  == savefig(fig[1], ax[1], kw, fs, writable)
           r2 == savefig(fig[1], ax[1], [kw EXCEPT !.fname = Other], fs, TRUE)
       IN  /\ fs' = IF r.ok THEN r.fs ELSE r2.fs
           /\ calls' = IF r.ok
                       THEN Append(calls, [kw |-> kw, ok |-> TRUE, opens |-> r.opens])
                       ELSE Append(calls, [kw |-> kw, ok |-> FALSE,
                                           opens |-> r.opens \o r2.opens])
           /\ pc' = "done"
           /\ exc' = ""
           /\ trace' = Append(trace, 17)
    /\ UNCHANGED <<x, y, X, Y, U, V, fig, ax, bbox_artists,
                   argv, environ, fs0, writable, runs, prev>>

\* fig.savefig("wind-field.pdf", orientation="landscape", format="pdf",
\*             transparent=True, bbox_inches="tight",
\*             bbox_extra_artists=bbox_artists)
\* The call is the module's last statement and stands in no try block: an
\* exception it raises ends the process.
Line17 ==
    /\ pc = "l17"
    /\ LET kw == [fname |-> Target, orientation |-> "landscape", format |-> "pdf",
                  transparent |-> TRUE, bbox_inches |-> "tight",
                  bbox_extra_artists |-> bbox_artists]
           r  == savefig(fig[1], ax[1], kw, fs, writable)
       IN  /\ fs' = r.fs
           /\ calls' = Append(calls, [kw |-> kw, ok |-> r.ok, opens |-> r.opens])
           /\ pc' = IF r.ok THEN "done" ELSE "failed"
           /\ exc' = IF r.ok THEN "" ELSE "PermissionError"
           /\ trace' = Append(trace, 17)
    /\ UNCHANGED <<x, y, X, Y, U, V, fig, ax, bbox_artists,
                   argv, environ, fs0, writable, runs, prev>>

Step ==
    \/ Line4 \/ Line5 \/ Line7 \/ Line9 \/ Line10 \/ Line12
    \/ Line13 \/ Line14 \/ Line15 \/ Line16 \/ Line17

\* the magnitude array handed to quiver
M == ax[1].collections[1].C

\* the script is run again in the same directory
Start ==
    /\ pc \in {"done", "failed"}
    /\ runs < MaxRuns
    /\ runs' = runs + 1
    /\ prev' = <<[X |-> X, Y |-> Y, U |-> U, V |-> V, M |-> M,
                   argv |-> argv, environ |-> environ, fs0 |-> fs0]>>
    /\ \E inp \in Inputs : argv' = inp.argv /\ environ' = inp.environ
    /\ writable' \in BOOLEAN
    /\ fs' = fs
    /\ fs0' = fs
    /\ pc' = "l4"
    /\ trace' = <<>>
    /\ exc' = ""
    /\ x' = Unbound /\ y' = Unbound
    /\ X' = Unbound /\ Y' = Unbound /\ U' = Unbound /\ V' = Unbound
    /\ fig' = <<>> /\ ax' = <<>> /\ bbox_artists' = <<>>
    /\ calls' = <<>>

Next == Step \/ Start

Spec == Init /\ [][Next]_vars

----------------------------------------------------------------------------
(* Properties *)

Range(q) == {q[k] : k \in DOMAIN q}

Rows == 0..(Ny - 1)
Cols == 0..(Nx - 1)

Bound(A) == A # Unbound
Drawn == ax # <<>> /\ ax[1].collections # <<>>
Exported == calls # <<>>

\* C1: after a run whose export succeeded, wind-field.pdf exists and holds
\* the figure this run rendered, whatever was under that name before.
C1_OutputHoldsNewFigure ==
    pc = "done" =>
        /\ fs[Target] # <<>>
        /\ fs[Target][1].magic = "%PDF-"
        /\ fs[Target][1].collections = ax[1].collections
        /\ fs[Target][1].labels = ax[1].labels
        /\ fs[Target][1].figsize = fig[1].figsize
        /\ fs[Target][1] # StalePdf

C1_Witness ==
    /\ pc = "done"
    /\ fs0[Target] = <<StalePdf>>
    /\ fs[Target] # fs0[Target]

\* the field of the source at one point, in the arithmetic of the model
UAt(xv, yv) == fmul(4 * sin(fmul(2 * pi, yv)), cos(RoundDiv(fmul(pi, xv), 2)))
VAt(xv, yv) == fmul(-cos(fmul(2 * pi, yv)), sin(RoundDiv(fmul(pi, xv), 2)))

\* C2: at every grid point U is 4 sin(2 pi Y) cos(pi X / 2) and V is
\* -cos(2 pi Y) sin(pi X / 2) of that point's own coordinates.  Two distinct
\* values of the model differ by 1/Scale or more, which is above the 1e-9 of
\* the claim, so within tolerance is equality here.
C2_FieldFormula ==
    /\ Bound(U) => \A i \in Rows, j \in Cols : U[i][j] = UAt(X[i][j], Y[i][j])
    /\ Bound(V) => \A i \in Rows, j \in Cols : V[i][j] = VAt(X[i][j], Y[i][j])

C2_Witness ==
    /\ Bound(U) /\ Bound(V)
    /\ U[5][16] # 0 /\ V[5][16] # 0
    /\ U[5][16] # U[16][5] /\ V[3][40] # V[3][41]

\* C3: X[i][j] = x[j] and Y[i][j] = y[i] for every row i and column j.
C3_MeshBroadcast ==
    Bound(X) =>
        \A i \in Rows, j \in Cols : X[i][j] = x[j] /\ Y[i][j] = y[i]

C3_Witness ==
    /\ Bound(X) /\ Bound(Y)
    /\ X[0][7] = X[19][7] /\ X[0][7] # X[0][8]
    /\ Y[3][0] = Y[3][79] /\ Y[3][0] # Y[4][0]

HasShape(A, m, n) ==
    /\ DOMAIN A = 0..(m - 1)
    /\ \A i \in DOMAIN A : DOMAIN A[i] = 0..(n - 1)

\* C4: from its creation on, each of X, Y, U, V and the magnitude array given
\* to quiver has 20 rows of 80 columns.
C4_GridShape ==
    /\ Bound(X) => HasShape(X, 20, 80) /\ shape(X) = <<20, 80>>
    /\ Bound(Y) => HasShape(Y, 20, 80) /\ shape(Y) = <<20, 80>>
    /\ Bound(U) => HasShape(U, 20, 80) /\ shape(U) = <<20, 80>>
    /\ Bound(V) => HasShape(V, 20, 80) /\ shape(V) = <<20, 80>>
    /\ Drawn => HasShape(M, 20, 80) /\ shape(M) = <<20, 80>>

C4_Witness ==
    /\ pc \in {"done", "failed"}
    /\ Bound(X) /\ Bound(Y) /\ Bound(U) /\ Bound(V) /\ Drawn
    /\ shape(M) = <<Ny, Nx>>

\* C5: both end points are on the grid (X is 0 in column 0 and 10 in column
\* 79, Y is 0 in row 0 and 1 in row 19) and the samples between are evenly
\* spaced: x[j] is 10 j / 79 and y[i] is i / 19, each to the nearest value
\* the arithmetic represents.
C5_GridValues ==
    /\ Bound(x) =>
          \A j \in Cols : 2 * Abs(79 * x[j] - 10 * j * Scale) <= 79
    /\ Bound(y) =>
          \A i \in Rows : 2 * Abs(19 * y[i] - i * Scale) <= 19
    /\ Bound(X) =>
          /\ \A i \in Rows : X[i][0] = 0 /\ X[i][79] = 10 * Scale
          /\ \A j \in Cols : Y[0][j] = 0 /\ Y[19][j] = Scale

C5_Witness ==
    /\ Bound(X) /\ Bound(Y)
    /\ X[19][79] = 10 * Scale /\ Y[19][79] = Scale
    /\ X[0][1] > 0 /\ X[0][78] < 10 * Scale
    /\ Y[1][0] > 0 /\ Y[18][0] < Scale

\* C6: the colour given to quiver at each grid point is sqrt(U^2 + V^2) of
\* the unscaled U and V (its square is U^2 + V^2 up to the rounding of the
\* squares and of the root); the arrows are (0.25 U, V), the factor on the
\* x-component alone.
C6_MagnitudeUnscaled ==
    Drawn =>
        LET q == ax[1].collections[1]
        IN  \A i \in Rows, j \in Cols :
               /\ q.C[i][j] = sqrt(fmul(U[i][j], U[i][j]) + fmul(V[i][j], V[i][j]))
               /\ q.C[i][j] >= 0
               /\ Abs(q.C[i][j] * q.C[i][j] - (U[i][j] * U[i][j] + V[i][j] * V[i][j]))
                     <= q.C[i][j] + Scale
               /\ 2 * Abs(4 * q.U[i][j] - U[i][j]) <= 4
               /\ q.V[i][j] = V[i][j]

C6_Witness ==
    /\ Drawn
    /\ Abs(U[5][16]) > 2 * Scale
    /\ ax[1].collections[1].U[5][16] # U[5][16]
    /\ ax[1].collections[1].C[5][16] > 2 * Scale

\* C7: a run computes the same X, Y, U, V and M as the run before it,
\* whatever the arguments, the environment and the files the two started with.
C7_Deterministic ==
    prev # <<>> =>
        /\ Bound(X) => X = prev[1].X
        /\ Bound(Y) => Y = prev[1].Y
        /\ Bound(U) => U = prev[1].U
        /\ Bound(V) => V = prev[1].V
        /\ Drawn => M = prev[1].M

C7_Witness ==
    /\ prev # <<>>
    /\ pc = "done"
    /\ argv # prev[1].argv
    /\ environ # prev[1].environ
    /\ fs0 # prev[1].fs0

\* C8: an export that fails on an unwritable path ends the process with the
\* error uncaught, after one attempt, on wind-field.pdf alone, and with the
\* directory as the process found it.
C8_ExportFailurePropagates ==
    (Exported /\ ~writable) =>
        /\ pc = "failed"
        /\ exc = "PermissionError"
        /\ Len(calls) = 1
        /\ calls[1].opens = <<Target>>
        /\ ~calls[1].ok
        /\ fs = fs0

C8_Witness ==
    /\ pc = "failed"
    /\ Exported
    /\ fs0[Target] = <<StalePdf>>

\* C9: every axis label set on the axes is in the extra-artist list given to
\* the export call.
C9_AllLabelsInExtraArtists ==
    \A k \in DOMAIN calls :
        \A axis \in {"xaxis", "yaxis"} :
            ax[1].labels[axis].text # "" =>
                axis \in Range(calls[k].kw.bbox_extra_artists)

Order == <<4, 5, 7, 9, 10, 12, 13, 14, 15, 16, 17>>
Labels == <<"l4", "l5", "l7", "l9", "l10", "l12", "l13", "l14", "l15", "l16", "l17">>

IsPrefix(s, t) == Len(s) <= Len(t) /\ \A k \in 1..Len(s) : s[k] = t[k]

\* C10: the statements run once each in the order of the source (grid,
\* field, quiver, labels, export), the export once and after the quiver and
\* both labels; until the module ends control stands at the statement after
\* the last one executed, and a process ends failed only when the export
\* could not write.
C10_SinglePath ==
    /\ IsPrefix(trace, Order)
    /\ pc \in {"done", "failed"} => trace = Order
    /\ Len(trace) < Len(Order) => pc = Labels[Len(trace) + 1]
    /\ pc = "failed" => ~writable
    /\ Len(calls) = (IF 17 \in Range(trace) THEN 1 ELSE 0)
    /\ Exported =>
          /\ Len(ax[1].collections) = 1
          /\ ax[1].labels.xaxis.text = "$x$"
          /\ ax[1].labels.yaxis.text = "$y$"

C10_Witness ==
    /\ pc = "done"
    /\ trace = Order
    /\ Len(calls) = 1
    /\ runs = 2

====
